---- MODULE Spec2Model ----
(***************************************************************************)
(* AeroEyeBot: the area-monitoring engine of src/aeroeyebot.py.            *)
(*                                                                         *)
(* Two execution contexts share the in-memory state of one AeroEyeBot      *)
(* object: the command handlers (set area, start / stop monitoring) and    *)
(* the monitor thread running monitor_flights.  A handler is one atomic    *)
(* step; monitor_flights is stepped statement group by statement group.    *)
(*                                                                         *)
(* Time.  Every datetime.now() stored by the program is kept as its age:   *)
(* the number of seconds elapsed since it was stored.  The subtraction     *)
(* datetime.now() - stored is then that age, time.sleep(n) adds n to every *)
(* age, and the wall clock is taken to be non-decreasing.  The statements  *)
(* between two sleeps take no time.                                        *)
(*                                                                         *)
(* Granularity.  notified_flights is touched by the monitor thread only,   *)
(* and the monitor thread reads monitoring_areas at lines 628 and 632      *)
(* only, so the body of the loop over the snapshot (lines 633-657) is one  *)
(* step per subscriber: the fetch and the whole loop over its flights.     *)
(***************************************************************************)
EXTENDS Integers, Sequences, FiniteSets, TLC

VARIABLES
    area_store,        \* table monitoring_areas: chat_id -> row
    monitoring_areas,  \* self.monitoring_areas, a dict in insertion order
    notified_flights,  \* self.notified_flights: key -> age of the stored time
    pc,                \* where the monitor thread is in monitor_flights
    snapshot,          \* the part of list(monitoring_areas.items()) still to do
    sleeps,            \* number of time.sleep calls made so far
    since_sent,        \* history: key -> seconds since its last delivered send
    cycle,             \* history: what the running cycle has done so far
    retry,             \* history: keys whose last send of the previous cycle failed
    probe,             \* one application of a pure function: input and result
    last_cmd           \* history: the commands handled so far, in short

vars == << area_store, monitoring_areas, notified_flights, pc, snapshot,
           sleeps, since_sent, cycle, retry, probe, last_cmd >>

----------------------------------------------------------------------------
(* Bounds of the model.                                                    *)

\* time.sleep calls in one behaviour
MaxSleeps == 2

\* flight records in one feed response
MaxFeedLen == 2

----------------------------------------------------------------------------
(* Program constants.                                                      *)

COOLDOWN_SECONDS == 1800
EXPIRY_SECONDS == 3600
IDLE_SLEEP == 60
POLL_SLEEP == 180
BACKOFF_SLEEP == 300
MIN_STATE_LEN == 7
ON_GROUND_INDEX == 8
VERTICAL_RATE_INDEX == 11

\* timedelta keeps (days, seconds, microseconds) with 0 <= seconds < 86400
SecondsPerDay == 24 * 60 * 60

----------------------------------------------------------------------------
(* Values.                                                                 *)

\* A nullable field is <<>> (None) or <<v>>.
Null == << >>
Some(v) == << v >>

\* Python truth value of a nullable number: None and 0 are false.
TruthyNum(x) == x # Null /\ x[1] # 0

\* Python truth value of a nullable string: None and "" are false.
TruthyStr(x) == x # Null /\ x[1] # ""

Chats == {1, 2}

Box(n, s, e, w) == [north |-> n, south |-> s, east |-> e, west |-> w]

BoxA == Box(1, -1, 1, -1)
BoxB == Box(2, 0, 2, 0)

\* The /setarea requests: each chat has one valid box of its own (the two
\* overlap), a box with north = south and a box with a latitude out of range.
Requests ==
    { [chat_id |-> 1, box |-> BoxA], [chat_id |-> 2, box |-> BoxB],
      [chat_id |-> 1, box |-> Box(1, 1, 1, -1)],
      [chat_id |-> 2, box |-> Box(91, -1, 1, -1)] }

\* One state vector of the feed: its length and the fields the loop reads.
State(n, icao, lat, lon, gnd) ==
    [len |-> n, icao24 |-> icao, latitude |-> lat, longitude |-> lon,
     on_ground |-> gnd]

\* A record long enough for every index the program reads (0 to 11).
FullLen == VERTICAL_RATE_INDEX + 1

\* Aircraft "a" as the feed may report it: airborne at (1, 1), a corner of
\* both boxes; airborne on the equator at (0, 1), inside both boxes; on the
\* ground at (1, 1).
AtCorner == State(FullLen, Some("a"), Some(1), Some(1), FALSE)
AtEquator == State(FullLen, Some("a"), Some(0), Some(1), FALSE)
OnGround == State(FullLen, Some("a"), Some(1), Some(1), TRUE)

FlightMenu == {AtCorner, AtEquator, OnGround}

\* Two aircraft the feed reports without an identifier: index 0 null for one
\* at (1, 1), index 0 the empty string for another at (1, -1), which is
\* inside BoxA only.
NoId == State(FullLen, Null, Some(1), Some(1), FALSE)
EmptyId == State(FullLen, Some(""), Some(1), Some(-1), FALSE)

\* The "states" arrays a 200 response may carry.
Feeds == UNION {[1..n -> FlightMenu] : n \in 0..MaxFeedLen}

\* What one HTTP request can come to: a 200 body with a "states" array, a 200
\* body whose "states" is null, or a failure (exception, timeout, non-200).
FeedResponses ==
    {[kind |-> "states", states |-> fl] : fl \in Feeds}
        \cup {[kind |-> "null", states |-> << >>],
              [kind |-> "failure", states |-> << >>]}

\* time.sleep(60) taken n times in a row by the idle branch, nothing else
\* happening in between: one minute, half an hour, an hour, a day.
IdleRuns == {1, 30, 60, 24 * 60}

Min(a, b) == IF a <= b THEN a ELSE b

Last(seq) == seq[Len(seq)]

----------------------------------------------------------------------------
(* Pure functions of the program.                                          *)

\* validate_coordinates with `north < south` for the test of line 342.
ValidateCoordinatesLoose(north, south, east, west) ==
    IF ~(-90 <= north /\ north <= 90 /\ -90 <= south /\ south <= 90) THEN FALSE
    ELSE IF ~(-180 <= east /\ east <= 180 /\ -180 <= west /\ west <= 180) THEN FALSE
    ELSE IF north < south THEN FALSE
    ELSE IF west >= east THEN FALSE
    ELSE TRUE

\* validate_coordinates
ValidateCoordinates(north, south, east, west) ==
    IF ~(-90 <= north /\ north <= 90 /\ -90 <= south /\ south <= 90) THEN FALSE
    ELSE IF ~(-180 <= east /\ east <= 180 /\ -180 <= west /\ west <= 180) THEN FALSE
    ELSE IF north <= south THEN FALSE
    ELSE IF west >= east THEN FALSE
    ELSE TRUE

\* get_flights_in_area: the list it returns, Some(list), or None, Null.
\* data.get('states', []) hands back the null of a body {"states": null}.
GetFlightsInArea(resp) ==
    CASE resp.kind = "states" -> Some(resp.states)
      [] resp.kind = "null" -> Null
      [] OTHER -> Some(<< >>)

\* is_flight_in_area without the on_ground test of line 557.
IsFlightInAreaIgnoringGround(flight_state, area) ==
    /\ flight_state.len > ON_GROUND_INDEX
    /\ TruthyNum(flight_state.longitude) /\ TruthyNum(flight_state.latitude)
    /\ area.south <= flight_state.latitude[1]
    /\ flight_state.latitude[1] <= area.north
    /\ area.west <= flight_state.longitude[1]
    /\ flight_state.longitude[1] <= area.east

\* is_flight_in_area.  A record shorter than 9 has no index 8: the IndexError
\* is caught at line 564.  `not longitude` is true of None and of 0.
IsFlightInArea(flight_state, area) ==
    IF flight_state.len < MIN_STATE_LEN THEN FALSE
    ELSE IF flight_state.len <= ON_GROUND_INDEX THEN FALSE
    ELSE IF \/ ~TruthyNum(flight_state.longitude)
            \/ ~TruthyNum(flight_state.latitude)
            \/ flight_state.on_ground
         THEN FALSE
    ELSE /\ area.south <= flight_state.latitude[1]
         /\ flight_state.latitude[1] <= area.north
         /\ area.west <= flight_state.longitude[1]
         /\ flight_state.longitude[1] <= area.east

\* icao24 = "unknown" if flight_state[0] is None else flight_state[0]
Icao24OfNoneOnly(flight_state) ==
    IF flight_state.icao24 # Null THEN flight_state.icao24[1] ELSE "unknown"

\* icao24 = flight_state[0] or "unknown"
Icao24(flight_state) ==
    IF TruthyStr(flight_state.icao24) THEN flight_state.icao24[1] ELSE "unknown"

\* notification_key = f"{chat_id}_{icao24}"
NotificationKey(chat_id, icao24) == ToString(chat_id) \o "_" \o icao24

\* timedelta.seconds of a difference of `age` seconds: the days are dropped.
Seconds(age) == age % SecondsPerDay

\* Lines 642-645 with the window of line 644 taken for the polling interval.
CooldownClearShortWindow(notified, key) ==
    ~(key \in DOMAIN notified /\ Seconds(notified[key]) < POLL_SLEEP)

\* Lines 642-645: FALSE when the loop takes `continue`.
CooldownClear(notified, key) ==
    ~(key \in DOMAIN notified /\ Seconds(notified[key]) < COOLDOWN_SECONDS)

\* Lines 660-664: the dictionary the cleanup builds.
Cleanup(notified) ==
    [key \in {k \in DOMAIN notified : Seconds(notified[k]) < EXPIRY_SECONDS}
        |-> notified[key]]

\* Lines 649-654 without the assignment of line 651.
AfterSendForgets(notified, key, ok) == notified

\* Lines 649-654: notified_flights after bot.send_message returned (ok) or
\* raised (the assignment of line 651 is skipped).
AfterSend(notified, key, ok) ==
    IF ok THEN (key :> 0) @@ notified ELSE notified

\* time.sleep(secs): every stored time grows older by secs.
Older(notified, secs) == [key \in DOMAIN notified |-> notified[key] + secs]

\* self.monitoring_areas[chat_id] = area: a key already there keeps its
\* place in the dict, a new key goes last.
DictSet(dict, chat_id, area) ==
    IF \E i \in 1..Len(dict) : dict[i].chat_id = chat_id
    THEN [i \in 1..Len(dict) |->
            IF dict[i].chat_id = chat_id
            THEN [chat_id |-> chat_id, area |-> area] ELSE dict[i]]
    ELSE Append(dict, [chat_id |-> chat_id, area |-> area])

\* del self.monitoring_areas[chat_id]
DictDel(dict, chat_id) == SelectSeq(dict, LAMBDA e : e.chat_id # chat_id)

DictKeys(dict) == {dict[i].chat_id : i \in 1..Len(dict)}

----------------------------------------------------------------------------
(* History kept beside the program state, for the properties below.        *)

\* GeoMath.contains of the specification, for an airborne record with a
\* known position: what "the aircraft is inside the area" means.
AirborneInside(flight_state, area) ==
    /\ flight_state.len > ON_GROUND_INDEX
    /\ ~flight_state.on_ground
    /\ flight_state.latitude # Null /\ flight_state.longitude # Null
    /\ area.south <= flight_state.latitude[1]
    /\ flight_state.latitude[1] <= area.north
    /\ area.west <= flight_state.longitude[1]
    /\ flight_state.longitude[1] <= area.east

\* The record names no aircraft: its identifier is absent or empty.
NoIdentifier(flight_state) ==
    flight_state.icao24 = Null \/ flight_state.icao24 = Some("")

\* The name under which the history keeps, for a chat, the deliveries made
\* for records without identifier, whatever key the program used for them.
Anonymous(chat_id) == ToString(chat_id) \o "_?"

\* The saturation point of since_sent: it only has to tell 30 minutes.
SinceCap == COOLDOWN_SECONDS

NoProbe == [done |-> FALSE]

\* Nothing handled yet.  tick flips at every command handled; reply is the
\* message the last one answered with; request tells whether it was a
\* coordinate message and whether its box was a well-formed area;
\* monitoring[c] is the outcome of the last /start_monitoring or
\* /stop_monitoring of chat c in the running process; area[c] is the box of
\* the last coordinate message of chat c that gave a well-formed area;
\* started[c], kept by the handlers of AreaSpec only, is the box the table
\* held for chat c when its last /start_monitoring found a row.
NoCommand ==
    [tick |-> FALSE, reply |-> "none", request |-> "none",
     monitoring |-> [c \in Chats |-> "none"],
     area |-> [c \in Chats |-> Null],
     started |-> [c \in Chats |-> Null]]

\* cycle: the subscribers of the snapshot (snap); those polled so far, each
\* with the box of the request and what the request came to (polled); what
\* last_cmd.started was when the snapshot was taken (started); per key, the outcomes of the
\* bot.send_message calls in call order (sink) and the number of records the
\* feed listed (listed); the time since the previous delivery, at each
\* delivery (gaps); the keys listed airborne inside the polled area (inside);
\* the keys with a record at the start of the cycle (had); whether a record
\* with on_ground set was listed, how many sends were made for such records
\* and whether one of them changed notified_flights; notified_flights as
\* the cleanup found it (before); how often the cleanup ran (swept); per
\* chat, for each record without identifier listed airborne inside the
\* polled area, its index 0 and whether bot.send_message was called and
\* returned (anon); and the time since the previous delivery for such a
\* record to the same chat, at each such delivery (anon_gaps).
NoCycle ==
    [snap |-> << >>, polled |-> << >>, sink |-> << >>, listed |-> << >>,
     gaps |-> {}, inside |-> {}, had |-> {}, ground_listed |-> FALSE,
     ground_calls |-> 0, ground_touched |-> FALSE, before |-> << >>,
     swept |-> 0, started |-> [c \in Chats |-> Null], anon |-> << >>,
     anon_gaps |-> {}]

AnonSeen(cyc, chat_id) ==
    IF Anonymous(chat_id) \in DOMAIN cyc.anon
    THEN cyc.anon[Anonymous(chat_id)] ELSE << >>

SinkCalls(cyc, key) == IF key \in DOMAIN cyc.sink THEN cyc.sink[key] ELSE << >>

Listed(cyc, key) == IF key \in DOMAIN cyc.listed THEN cyc.listed[key] ELSE 0

Delivered(cyc, key) ==
    Cardinality({i \in 1..Len(SinkCalls(cyc, key)) : SinkCalls(cyc, key)[i]})

PolledChats(cyc) == [i \in 1..Len(cyc.polled) |-> cyc.polled[i].chat_id]

----------------------------------------------------------------------------
(* The monitor thread.                                                     *)

\* Lines 637-654: the body of `for flight_state in flights` for one record.
\* ok tells whether bot.send_message, if called, returns.  The result is
\* notified_flights afterwards, and whether bot.send_message was called.
FlightStep(chat_id, area, flight_state, ok, notified) ==
    LET key == NotificationKey(chat_id, Icao24(flight_state))
    IN  IF ~IsFlightInArea(flight_state, area)
        THEN [notified |-> notified, called |-> FALSE]
        ELSE IF ~CooldownClear(notified, key)
        THEN [notified |-> notified, called |-> FALSE]
        ELSE [notified |-> AfterSend(notified, key, ok), called |-> TRUE]

\* The history after FlightStep took `notified` to `out`.
Observe(chat_id, area, flight_state, ok, st, out) ==
    LET key == NotificationKey(chat_id, Icao24(flight_state))
        ground == flight_state.len > ON_GROUND_INDEX /\ flight_state.on_ground
        sent == out.called /\ ok
        anon == NoIdentifier(flight_state)
    IN  [since |-> IF sent /\ anon
                   THEN (Anonymous(chat_id) :> 0) @@ (key :> 0) @@ st.since
                   ELSE IF sent THEN (key :> 0) @@ st.since ELSE st.since,
         cyc |-> [st.cyc EXCEPT
            !.anon = IF anon /\ AirborneInside(flight_state, area)
                     THEN (Anonymous(chat_id) :>
                             Append(AnonSeen(st.cyc, chat_id),
                                    [icao24 |-> flight_state.icao24,
                                     called |-> out.called,
                                     sent |-> sent])) @@ @
                     ELSE @,
            !.anon_gaps = IF sent /\ anon
                             /\ Anonymous(chat_id) \in DOMAIN st.since
                          THEN @ \cup {st.since[Anonymous(chat_id)]} ELSE @,
            !.listed = (key :> Listed(st.cyc, key) + 1) @@ @,
            !.inside = IF AirborneInside(flight_state, area)
                       THEN @ \cup {key} ELSE @,
            !.sink = IF out.called
                     THEN (key :> Append(SinkCalls(st.cyc, key), ok)) @@ @
                     ELSE @,
            !.gaps = IF sent /\ key \in DOMAIN st.since
                     THEN @ \cup {st.since[key]} ELSE @,
            !.ground_listed = @ \/ ground,
            !.ground_calls = IF ground /\ out.called THEN @ + 1 ELSE @,
            !.ground_touched = @ \/ (ground /\ out.notified # st.notified)]]

\* Lines 636-654: the loop over the flights of one subscriber.
RECURSIVE FlightLoop(_, _, _, _, _)
FlightLoop(chat_id, area, fl, oks, st) ==
    IF fl = << >> THEN st
    ELSE LET out == FlightStep(chat_id, area, Head(fl), Head(oks), st.notified)
             seen == Observe(chat_id, area, Head(fl), Head(oks), st, out)
         IN  FlightLoop(chat_id, area, Tail(fl), Tail(oks),
                        [notified |-> out.notified, since |-> seen.since,
                         cyc |-> seen.cyc])

\* The cleanup moved into the loop over the subscribers: it follows each.
SweepAfterEach(rest) == "sweep"

\* Where the loop over the snapshot goes after one subscriber, the rest of
\* the snapshot being `rest`: the next subscriber, or the cleanup.
NextSubscriber(rest) == IF rest = << >> THEN "sweep" ELSE "poll"

\* Lines 633-657 without the inner try: the exception reaches line 668.
EscapesTheCycle(rest) == "backoff"

\* Lines 656-657: the except clause of the loop body logs and falls through
\* to the next subscriber.
AfterSubscriberError(rest) == NextSubscriber(rest)

\* time.sleep(secs).  A counted sleep is one of the MaxSleeps of a behaviour.
Sleep(secs, counted) ==
    /\ counted => sleeps < MaxSleeps
    /\ sleeps' = IF counted THEN sleeps + 1 ELSE sleeps
    /\ notified_flights' = Older(notified_flights, secs)
    /\ since_sent' = [k \in DOMAIN since_sent |->
                        Min(since_sent[k] + secs, SinceCap)]

\* Lines 628-630, n times in a row: nobody is monitored.
Idle ==
    /\ pc = "check"
    /\ monitoring_areas = << >>
    /\ \E n \in IdleRuns : Sleep(n * IDLE_SLEEP, TRUE)
    /\ UNCHANGED << area_store, monitoring_areas, pc, snapshot, cycle, retry,
                    probe, last_cmd >>

\* Line 628 without its test: on to the loop, monitored or not.
CheckWithoutGuard ==
    /\ pc = "check"
    /\ pc' = "snapshot"
    /\ UNCHANGED << area_store, monitoring_areas, notified_flights, snapshot,
                    sleeps, since_sent, cycle, retry, probe, last_cmd >>

\* Line 628, somebody is monitored: on to the loop.
Check ==
    /\ pc = "check"
    /\ monitoring_areas # << >>
    /\ pc' = "snapshot"
    /\ UNCHANGED << area_store, monitoring_areas, notified_flights, snapshot,
                    sleeps, since_sent, cycle, retry, probe, last_cmd >>

\* Line 632: list(self.monitoring_areas.items()).
TakeSnapshot ==
    /\ pc = "snapshot"
    /\ snapshot' = monitoring_areas
    /\ pc' = NextSubscriber(monitoring_areas)
    /\ cycle' = [NoCycle EXCEPT
                   !.snap = [i \in 1..Len(monitoring_areas) |->
                               monitoring_areas[i].chat_id],
                   !.had = DOMAIN notified_flights,
                   !.started = last_cmd.started]
    /\ UNCHANGED << area_store, monitoring_areas, notified_flights, sleeps,
                    since_sent, retry, probe, last_cmd >>

\* Lines 633-657: one subscriber of the snapshot, the feed answering with
\* one of `responses` and each bot.send_message returning or raising as one
\* of `sends` tells.
PollWith(responses, sends) ==
    /\ pc = "poll"
    /\ snapshot # << >>
    /\ \E resp \in responses :
         LET chat_id == Head(snapshot).chat_id
             area == Head(snapshot).area
             got == GetFlightsInArea(resp)
         IN  IF got = Null
             THEN \* `for flight_state in None` raises TypeError
                  /\ pc' = AfterSubscriberError(Tail(snapshot))
                  /\ cycle' = [cycle EXCEPT !.polled =
                        Append(@, [chat_id |-> chat_id, area |-> area,
                                   result |-> "raised"])]
                  /\ UNCHANGED << notified_flights, since_sent >>
             ELSE \E oks \in [1..Len(got[1]) -> sends] :
                    LET st == FlightLoop(chat_id, area, got[1], oks,
                                 [notified |-> notified_flights,
                                  since |-> since_sent, cyc |-> cycle])
                    IN  /\ notified_flights' = st.notified
                        /\ since_sent' = st.since
                        /\ cycle' = [st.cyc EXCEPT !.polled =
                              Append(@, [chat_id |-> chat_id, area |-> area,
                                         result |-> resp.kind])]
                        /\ pc' = NextSubscriber(Tail(snapshot))
    /\ snapshot' = Tail(snapshot)
    /\ UNCHANGED << area_store, monitoring_areas, sleeps, retry, probe, last_cmd >>

PollSubscriber == PollWith(FeedResponses, BOOLEAN)

\* Lines 659-664: cleanup of old notifications.
Sweep ==
    /\ pc = "sweep"
    /\ notified_flights' = Cleanup(notified_flights)
    /\ cycle' = [NoCycle EXCEPT !.before = notified_flights,
                                !.swept = cycle.swept + 1]
    /\ retry' = {k \in DOMAIN cycle.sink : ~Last(cycle.sink[k])}
    /\ pc' = "sleep"
    /\ UNCHANGED << area_store, monitoring_areas, snapshot, sleeps, since_sent,
                    probe, last_cmd >>

\* Line 666: time.sleep(180), then the next iteration.
PollSleepWith(counted) ==
    /\ pc = "sleep"
    /\ Sleep(POLL_SLEEP, counted)
    /\ cycle' = NoCycle
    /\ pc' = "check"
    /\ UNCHANGED << area_store, monitoring_areas, snapshot, retry, probe, last_cmd >>

PollSleep == PollSleepWith(TRUE)

\* Line 668: an exception leaves the body of the while loop (here: while the
\* cleanup builds its dictionary, which is then not assigned).
CycleFailure ==
    /\ pc = "sweep"
    /\ pc' = "backoff"
    /\ cycle' = NoCycle
    /\ retry' = {k \in DOMAIN cycle.sink : ~Last(cycle.sink[k])}
    /\ UNCHANGED << area_store, monitoring_areas, notified_flights, snapshot,
                    sleeps, since_sent, probe, last_cmd >>

\* Lines 669-670 with the handler leaving the loop after logging (a break,
\* or the exception raised again): monitor_flights returns.
BackoffGivesUp ==
    /\ pc = "backoff"
    /\ pc' = "returned"
    /\ UNCHANGED << area_store, monitoring_areas, notified_flights, snapshot,
                    sleeps, since_sent, cycle, retry, probe, last_cmd >>

\* Lines 669-670: log, time.sleep(300), then the next iteration.
Backoff ==
    /\ pc = "backoff"
    /\ Sleep(BACKOFF_SLEEP, TRUE)
    /\ cycle' = NoCycle
    /\ pc' = "check"
    /\ UNCHANGED << area_store, monitoring_areas, snapshot, retry, probe, last_cmd >>

----------------------------------------------------------------------------
(* The command handlers.                                                   *)

\* process_coordinates without the test of line 291.
SetAreaUnchecked(chat_id, box) ==
    /\ area_store' = (chat_id :> [area |-> box, is_active |-> 1]) @@ area_store
    /\ UNCHANGED << monitoring_areas, notified_flights, pc, snapshot, sleeps,
                    since_sent, cycle, retry, probe >>

\* save_user_area with INSERT OR IGNORE: a row already there is kept.
SetAreaKeepsFirst(chat_id, box) ==
    /\ IF ValidateCoordinates(box.north, box.south, box.east, box.west)
       THEN area_store' = area_store @@ (chat_id :> [area |-> box, is_active |-> 1])
       ELSE UNCHANGED area_store
    /\ UNCHANGED << monitoring_areas, notified_flights, pc, snapshot, sleeps,
                    since_sent, cycle, retry, probe >>

\* save_user_area also refreshing the entry of a chat that is monitored.
SetAreaMovesMonitor(chat_id, box) ==
    /\ IF ValidateCoordinates(box.north, box.south, box.east, box.west)
       THEN /\ area_store' =
                   (chat_id :> [area |-> box, is_active |-> 1]) @@ area_store
            /\ monitoring_areas' =
                   IF chat_id \in DictKeys(monitoring_areas)
                   THEN DictSet(monitoring_areas, chat_id, box)
                   ELSE monitoring_areas
       ELSE UNCHANGED << area_store, monitoring_areas >>
    /\ UNCHANGED << notified_flights, pc, snapshot, sleeps, since_sent, cycle,
                    retry, probe >>

\* process_coordinates with save_user_area: /setarea answered with a box.
SetArea(chat_id, box) ==
    /\ IF ValidateCoordinates(box.north, box.south, box.east, box.west)
       THEN area_store' = (chat_id :> [area |-> box, is_active |-> 1]) @@ area_store
       ELSE UNCHANGED area_store
    /\ UNCHANGED << monitoring_areas, notified_flights, pc, snapshot, sleeps,
                    since_sent, cycle, retry, probe >>

\* start_user_monitoring
StartMonitoring(chat_id) ==
    /\ IF chat_id \in DOMAIN area_store /\ area_store[chat_id].is_active = 1
       THEN monitoring_areas' =
                DictSet(monitoring_areas, chat_id, area_store[chat_id].area)
       ELSE UNCHANGED monitoring_areas
    /\ UNCHANGED << area_store, notified_flights, pc, snapshot, sleeps,
                    since_sent, cycle, retry, probe >>

\* stop_user_monitoring with the monitor thread looping over the dictionary
\* itself instead of list(...items()): the entry leaves the running loop too.
StopMonitoringCutsSnapshot(chat_id) ==
    /\ monitoring_areas' = DictDel(monitoring_areas, chat_id)
    /\ snapshot' = DictDel(snapshot, chat_id)
    /\ UNCHANGED << area_store, notified_flights, pc, sleeps, since_sent,
                    cycle, retry, probe >>

\* stop_user_monitoring with the del of line 475 left out.
StopMonitoringKeeps(chat_id) ==
    UNCHANGED << area_store, monitoring_areas, notified_flights, pc, snapshot,
                 sleeps, since_sent, cycle, retry, probe >>

\* stop_user_monitoring that also drops the notification times of the chat.
StopMonitoringForgets(chat_id) ==
    /\ monitoring_areas' = DictDel(monitoring_areas, chat_id)
    /\ notified_flights' =
          [key \in {k \in DOMAIN notified_flights :
                       \A icao24 \in {"a", "unknown"} :
                           k # NotificationKey(chat_id, icao24)}
              |-> notified_flights[key]]
    /\ UNCHANGED << area_store, pc, snapshot, sleeps, since_sent, cycle, retry,
                    probe >>

\* stop_user_monitoring
StopMonitoring(chat_id) ==
    /\ IF chat_id \in DictKeys(monitoring_areas)
       THEN monitoring_areas' = DictDel(monitoring_areas, chat_id)
       ELSE UNCHANGED monitoring_areas
    /\ UNCHANGED << area_store, notified_flights, pc, snapshot, sleeps,
                    since_sent, cycle, retry, probe >>

\* show_current_area and show_status: they read the table and the
\* dictionary and answer.
ShowCurrentArea(chat_id) ==
    UNCHANGED << area_store, monitoring_areas, notified_flights, pc, snapshot,
                 sleeps, since_sent, cycle, retry, probe >>

ShowStatus(chat_id) ==
    UNCHANGED << area_store, monitoring_areas, notified_flights, pc, snapshot,
                 sleeps, since_sent, cycle, retry, probe >>

\* The message each handler answers with.
SetAreaReply(box) ==
    IF ValidateCoordinates(box.north, box.south, box.east, box.west)
    THEN "area_set" ELSE "invalid_coordinates"

StartReply(chat_id) ==
    IF chat_id \in DOMAIN area_store /\ area_store[chat_id].is_active = 1
    THEN "monitoring_started" ELSE "set_area_first"

StopReply(chat_id) ==
    IF chat_id \in DictKeys(monitoring_areas)
    THEN "monitoring_stopped" ELSE "not_active"

ShowCurrentAreaReply(chat_id) ==
    IF chat_id \in DOMAIN area_store THEN "your_area" ELSE "no_area"

----------------------------------------------------------------------------

\* __init__: both registries empty; the table as init_database finds it on
\* a first run; the monitor thread at the top of its loop.
Init ==
    /\ area_store = << >>
    /\ monitoring_areas = << >>
    /\ notified_flights = << >>
    /\ pc = "check"
    /\ snapshot = << >>
    /\ sleeps = 0
    /\ since_sent = << >>
    /\ cycle = NoCycle
    /\ retry = {}
    /\ probe = NoProbe
    /\ last_cmd = NoCommand

Command ==
    \/ \E req \in Requests :
          SetArea(req.chat_id, req.box) /\ UNCHANGED last_cmd
    \/ \E chat_id \in Chats : StartMonitoring(chat_id) /\ UNCHANGED last_cmd
    \/ \E chat_id \in Chats : StopMonitoring(chat_id) /\ UNCHANGED last_cmd

Monitor ==
    \/ Idle
    \/ Check
    \/ TakeSnapshot
    \/ PollSubscriber
    \/ Sweep
    \/ PollSleep
    \/ CycleFailure
    \/ Backoff

Next == Command \/ Monitor

Spec == Init /\ [][Next]_vars

----------------------------------------------------------------------------
(* is_flight_in_area applied once to an area and a flight record.          *)

ProbeCoords == -1..1

ProbeBoxes ==
    {b \in [north : ProbeCoords, south : ProbeCoords,
            east : ProbeCoords, west : ProbeCoords] :
        ValidateCoordinates(b.north, b.south, b.east, b.west)}

ProbePositions == {Null} \cup {Some(x) : x \in -2..2}

ProbeFlights ==
    {State(FullLen, Some("a"), lat, lon, gnd) :
        lat \in ProbePositions, lon \in ProbePositions, gnd \in BOOLEAN}

ContainInit ==
    /\ area_store = << >>
    /\ monitoring_areas = << >>
    /\ notified_flights = << >>
    /\ pc = "check"
    /\ snapshot = << >>
    /\ sleeps = 0
    /\ since_sent = << >>
    /\ cycle = NoCycle
    /\ retry = {}
    /\ probe \in {[done |-> FALSE, area |-> b, flight |-> f, result |-> FALSE] :
                     b \in ProbeBoxes, f \in ProbeFlights}
    /\ last_cmd = NoCommand

ApplyIsFlightInArea ==
    /\ ~probe.done
    /\ probe' = [probe EXCEPT !.done = TRUE,
                              !.result = IsFlightInArea(probe.flight, probe.area)]
    /\ UNCHANGED << area_store, monitoring_areas, notified_flights, pc,
                    snapshot, sleeps, since_sent, cycle, retry,
                    last_cmd >>

ContainSpec == ContainInit /\ [][ApplyIsFlightInArea]_vars

----------------------------------------------------------------------------
(* validate_coordinates applied once to four numbers, each in range, on a *)
(* limit of its range or just outside.                                     *)

ProbeLatitudes == {-91, -90, 0, 90, 91}

ProbeLongitudes == {-181, -180, 0, 180, 181}

ValidateInit ==
    /\ area_store = << >>
    /\ monitoring_areas = << >>
    /\ notified_flights = << >>
    /\ pc = "check"
    /\ snapshot = << >>
    /\ sleeps = 0
    /\ since_sent = << >>
    /\ cycle = NoCycle
    /\ retry = {}
    /\ last_cmd = NoCommand
    /\ probe \in {[done |-> FALSE, box |-> Box(n, s, e, w), result |-> FALSE] :
                     n \in ProbeLatitudes, s \in ProbeLatitudes,
                     e \in ProbeLongitudes, w \in ProbeLongitudes}

ApplyValidateCoordinates ==
    /\ ~probe.done
    /\ probe' = [probe EXCEPT
                   !.done = TRUE,
                   !.result = ValidateCoordinates(probe.box.north, probe.box.south,
                                                  probe.box.east, probe.box.west)]
    /\ UNCHANGED << area_store, monitoring_areas, notified_flights, pc,
                    snapshot, sleeps, since_sent, cycle, retry, last_cmd >>

ValidateSpec == ValidateInit /\ [][ApplyValidateCoordinates]_vars

----------------------------------------------------------------------------
(* The monitor thread left alone with one subscriber: chat 1 has set BoxA  *)
(* and started monitoring, no further command arrives, every request to    *)
(* the feed answers 200 and lists aircraft "a" airborne inside BoxA, and   *)
(* every bot.send_message returns.  The thread is a daemon thread that     *)
(* runs for as long as the process: its next step is always taken.         *)

LiveResponses ==
    {[kind |-> "states", states |-> fl] : fl \in {<< AtCorner >>, << AtEquator >>}}

LiveInit ==
    /\ area_store = (1 :> [area |-> BoxA, is_active |-> 1])
    /\ monitoring_areas = << [chat_id |-> 1, area |-> BoxA] >>
    /\ notified_flights = << >>
    /\ pc = "check"
    /\ snapshot = << >>
    /\ sleeps = 0
    /\ since_sent = << >>
    /\ cycle = NoCycle
    /\ retry = {}
    /\ probe = NoProbe
    /\ last_cmd = NoCommand

LivePoll == PollWith(LiveResponses, {TRUE})

LivePollSleep == PollSleepWith(FALSE)

LiveNext ==
    \/ Check
    \/ TakeSnapshot
    \/ LivePoll
    \/ Sweep
    \/ LivePollSleep

LiveSpec == LiveInit /\ [][LiveNext]_vars /\ WF_vars(LiveNext)

----------------------------------------------------------------------------
(* The monitor thread for as long as the process runs, the commands of    *)
(* one subscriber arriving at any time.  The sleeps that end a cycle are not counted, so cycles    *)
(* follow each other without end; the idle sleeps and the exceptions that  *)
(* leave an iteration stay counted.  The thread is started once by run()   *)
(* and is scheduled for as long as the process: its next step is always    *)
(* taken.                                                                  *)

LoopResponses ==
    {[kind |-> "states", states |-> << AtCorner >>],
     [kind |-> "null", states |-> << >>],
     [kind |-> "failure", states |-> << >>]}

LoopPoll == PollWith(LoopResponses, {TRUE})

\* An exception leaves the iteration, while the back-off sleep that
\* follows can still be counted.
LoopCycleFailure == sleeps < MaxSleeps /\ CycleFailure

LoopMonitor ==
    \/ Idle
    \/ Check
    \/ TakeSnapshot
    \/ LoopPoll
    \/ Sweep
    \/ LivePollSleep
    \/ LoopCycleFailure
    \/ Backoff

\* The commands of one subscriber.
LoopCommand ==
    \/ SetArea(1, BoxA) /\ UNCHANGED last_cmd
    \/ StartMonitoring(1) /\ UNCHANGED last_cmd
    \/ StopMonitoring(1) /\ UNCHANGED last_cmd

LoopNext == LoopCommand \/ LoopMonitor

LoopSpec == Init /\ [][LoopNext]_vars /\ WF_vars(LoopMonitor)

----------------------------------------------------------------------------
(* The command handlers with their history, the process restarting at any  *)
(* time, beside a monitor thread whose every request lists aircraft "a"    *)
(* airborne at (1, 1) and whose every send returns.                        *)

\* The coordinate messages: chat 1 sends two well-formed boxes and one with
\* north = south, chat 2 one well-formed box, one with west = east and one
\* with a latitude out of range.
CmdRequests ==
    { [chat_id |-> 1, box |-> BoxA], [chat_id |-> 1, box |-> BoxB],
      [chat_id |-> 1, box |-> Box(1, 1, 1, -1)],
      [chat_id |-> 2, box |-> BoxB],
      [chat_id |-> 2, box |-> Box(1, -1, 1, 1)],
      [chat_id |-> 2, box |-> Box(91, -1, 1, -1)] }

\* What the spec calls a well-formed area.
ValidArea(box) ==
    /\ -90 <= box.north /\ box.north <= 90
    /\ -90 <= box.south /\ box.south <= 90
    /\ -180 <= box.east /\ box.east <= 180
    /\ -180 <= box.west /\ box.west <= 180
    /\ box.north > box.south
    /\ box.west < box.east

\* last_cmd after one more command.
Handled(reply) ==
    [last_cmd EXCEPT !.tick = ~@, !.reply = reply, !.request = "none"]

HandleCoordinates(chat_id, box) ==
    /\ SetArea(chat_id, box)
    /\ last_cmd' = [Handled(SetAreaReply(box)) EXCEPT
                      !.request = IF ValidArea(box) THEN "well_formed"
                                                    ELSE "malformed",
                      !.area[chat_id] = IF ValidArea(box) THEN Some(box) ELSE @]

HandleStart(chat_id) ==
    /\ StartMonitoring(chat_id)
    /\ last_cmd' = [Handled(StartReply(chat_id))
                    EXCEPT !.monitoring[chat_id] =
                      IF /\ chat_id \in DOMAIN area_store
                         /\ area_store[chat_id].is_active = 1
                      THEN "started" ELSE "nothing_stored"]

HandleStop(chat_id) ==
    /\ StopMonitoring(chat_id)
    /\ last_cmd' = [Handled(StopReply(chat_id))
                    EXCEPT !.monitoring[chat_id] = "stopped"]

HandleMyArea(chat_id) ==
    /\ ShowCurrentArea(chat_id)
    /\ last_cmd' = Handled(ShowCurrentAreaReply(chat_id))

HandleStatus(chat_id) ==
    /\ ShowStatus(chat_id)
    /\ last_cmd' = Handled("status")

\* The process ends and is started again: __init__ opens the same database
\* file (CREATE TABLE IF NOT EXISTS keeps its rows) and makes both
\* dictionaries empty; run() starts a new monitor thread.
Restart ==
    /\ monitoring_areas' = << >>
    /\ notified_flights' = << >>
    /\ pc' = "check"
    /\ snapshot' = << >>
    /\ cycle' = NoCycle
    /\ retry' = {}
    /\ last_cmd' = [last_cmd EXCEPT !.reply = "none", !.request = "none",
                                    !.monitoring = [c \in Chats |-> "none"],
                                    !.started = [c \in Chats |-> Null]]
    /\ UNCHANGED << area_store, sleeps, since_sent, probe >>

CmdResponses == {[kind |-> "states", states |-> << AtCorner >>]}

CmdPoll == PollWith(CmdResponses, {TRUE})

CmdNext ==
    \/ \E req \in CmdRequests : HandleCoordinates(req.chat_id, req.box)
    \/ \E chat_id \in Chats : HandleStart(chat_id)
    \/ \E chat_id \in Chats : HandleStop(chat_id)
    \/ \E chat_id \in Chats : HandleMyArea(chat_id)
    \/ \E chat_id \in Chats : HandleStatus(chat_id)
    \/ Restart
    \/ Idle
    \/ Check
    \/ TakeSnapshot
    \/ CmdPoll
    \/ Sweep
    \/ PollSleep

CommandSpec == Init /\ [][CmdNext]_vars

----------------------------------------------------------------------------
(* The coordinate, /start_monitoring and /stop_monitoring handlers beside  *)
(* the monitor thread, with the box each /start_monitoring found in the    *)
(* table kept in last_cmd.started.                                         *)

AreaRequests ==
    {[chat_id |-> 1, box |-> BoxA], [chat_id |-> 1, box |-> BoxB],
     [chat_id |-> 2, box |-> BoxB]}

\* Lines 86-88 with 428-447: the row found is the box that goes into
\* self.monitoring_areas.
AreaStart(chat_id) ==
    /\ StartMonitoring(chat_id)
    /\ last_cmd' = [Handled(StartReply(chat_id))
                    EXCEPT !.started[chat_id] =
                      IF /\ chat_id \in DOMAIN area_store
                         /\ area_store[chat_id].is_active = 1
                      THEN Some(area_store[chat_id].area) ELSE @]

AreaStop(chat_id) ==
    /\ StopMonitoring(chat_id)
    /\ last_cmd' = Handled(StopReply(chat_id))

AreaNext ==
    \/ \E req \in AreaRequests : HandleCoordinates(req.chat_id, req.box)
    \/ \E chat_id \in Chats : AreaStart(chat_id)
    \/ \E chat_id \in Chats : AreaStop(chat_id)
    \/ Idle
    \/ Check
    \/ TakeSnapshot
    \/ CmdPoll
    \/ Sweep
    \/ PollSleep

AreaSpec == Init /\ [][AreaNext]_vars

----------------------------------------------------------------------------
(* The monitor thread with both chats monitoring, chat 1 BoxA and chat 2   *)
(* BoxB, and a feed that lists aircraft without identifier beside          *)
(* aircraft "a".                                                           *)

AnonMenu == {NoId, EmptyId, AtCorner}

AnonResponses ==
    {[kind |-> "states", states |-> fl] :
        fl \in UNION {[1..n -> AnonMenu] : n \in 0..MaxFeedLen}}

\* The state after both chats sent their box and /start_monitoring.
AnonInit ==
    /\ area_store = (1 :> [area |-> BoxA, is_active |-> 1])
                        @@ (2 :> [area |-> BoxB, is_active |-> 1])
    /\ monitoring_areas = << [chat_id |-> 1, area |-> BoxA],
                             [chat_id |-> 2, area |-> BoxB] >>
    /\ notified_flights = << >>
    /\ pc = "check"
    /\ snapshot = << >>
    /\ sleeps = 0
    /\ since_sent = << >>
    /\ cycle = NoCycle
    /\ retry = {}
    /\ probe = NoProbe
    /\ last_cmd = NoCommand

AnonPoll == PollWith(AnonResponses, BOOLEAN)

AnonNext ==
    \/ Check
    \/ TakeSnapshot
    \/ AnonPoll
    \/ Sweep
    \/ PollSleep

AnonSpec == AnonInit /\ [][AnonNext]_vars

----------------------------------------------------------------------------
(* Properties.                                                             *)

AircraftIds == {"a", "unknown"}

KeysOf(chat_id) == {NotificationKey(chat_id, icao24) : icao24 \in AircraftIds}

\* C1: two delivered notifications for one key are never less than 30
\* minutes apart: at every delivery, the time since the previous delivery
\* for the same key is at least the cooldown window.
C1_CooldownSuppression == \A gap \in cycle.gaps : gap >= COOLDOWN_SECONDS

\* A key is delivered a second time, the first delivery being 30 minutes old.
C1_Witness == pc = "sweep" /\ COOLDOWN_SECONDS \in cycle.gaps

\* C2: the cooldown check lets a notification through whenever no record
\* exists for the key or the record is at least 30 minutes old, however old.
C2_CooldownRelease ==
    \A key \in KeysOf(1) \cup KeysOf(2) :
        (key \notin DOMAIN notified_flights
            \/ notified_flights[key] >= COOLDOWN_SECONDS)
        => CooldownClear(notified_flights, key)

\* C3: with the subscriber monitoring, the aircraft airborne inside its area
\* at every poll, the feed and the sink succeeding and the monitor thread
\* running, whenever no record younger than 30 minutes exists for the pair
\* a notification for it is eventually delivered.
C3_EventualNotification ==
    (pc = "check" /\ ("1_a" \notin DOMAIN notified_flights
                        \/ notified_flights["1_a"] >= COOLDOWN_SECONDS))
        ~> (Delivered(cycle, "1_a") > 0)

\* C4: right after the cleanup no record of 60 minutes or more is left,
\* however old, and every younger record is still there with its time.
C4_SweepPostcondition ==
    pc = "sleep" =>
        /\ \A key \in DOMAIN notified_flights :
              notified_flights[key] < EXPIRY_SECONDS
        /\ \A key \in DOMAIN cycle.before :
              cycle.before[key] < EXPIRY_SECONDS
              => /\ key \in DOMAIN notified_flights
                 /\ notified_flights[key] = cycle.before[key]

\* C5: for an airborne record the membership test is true exactly when
\* latitude and longitude are present (zero included) and south <= lat <=
\* north and west <= lon <= east; it is false when either is absent.
C5_Containment ==
    (probe.done /\ ~probe.flight.on_ground)
        => probe.result = AirborneInside(probe.flight, probe.area)

\* C6: no bot.send_message is made for a record with on_ground set, and
\* processing such a record leaves notified_flights as it was.
C6_GroundNeverNotified == cycle.ground_calls = 0 /\ ~cycle.ground_touched

\* A subscriber was polled, the feed listed a record with on_ground set at a
\* position inside the area, no record exists for its key, nothing was sent.
C6_Witness ==
    /\ pc = "sweep"
    /\ cycle.ground_listed
    /\ cycle.inside = {}
    /\ notified_flights = << >>

\* C7: polling one subscriber never creates, changes or removes the record
\* of another subscriber; and when an aircraft is listed airborne inside
\* the areas of both subscribers in one cycle, with no record for either
\* pair at its start and no send failing, each subscriber gets exactly one
\* notification for it in that cycle.
C7_PerSubscriberIndependence ==
    /\ [][pc = "poll" =>
            \A chat_id \in Chats \ {Head(snapshot).chat_id} :
                \A key \in KeysOf(chat_id) :
                    /\ key \in DOMAIN notified_flights'
                            <=> key \in DOMAIN notified_flights
                    /\ key \in DOMAIN notified_flights
                            => notified_flights'[key] = notified_flights[key]]_vars
    /\ [](pc = "sweep" =>
            \A icao24 \in AircraftIds :
                LET k1 == NotificationKey(1, icao24)
                    k2 == NotificationKey(2, icao24)
                IN  (/\ {k1, k2} \subseteq cycle.inside
                     /\ {k1, k2} \cap cycle.had = {}
                     /\ \A k \in DOMAIN cycle.sink :
                           \A i \in 1..Len(cycle.sink[k]) : cycle.sink[k][i])
                    => Delivered(cycle, k1) = 1 /\ Delivered(cycle, k2) = 1)

\* The request of a polled subscriber failed: it answered no 200 with a
\* "states" array.
FailedPoll(entry) == entry.result # "states"

\* C8: when the poll of one subscriber fails, the loop goes on with the
\* next subscriber of the snapshot, or with the cleanup after the last one,
\* and notified_flights is as it was; at the cleanup every subscriber of
\* the snapshot has been polled exactly once, in order.
C8_FaultIsolation ==
    /\ [][(pc = "poll" /\ Len(cycle'.polled) = Len(cycle.polled) + 1
               /\ FailedPoll(Last(cycle'.polled)))
            => /\ pc' = (IF Tail(snapshot) = << >> THEN "sweep" ELSE "poll")
               /\ snapshot' = Tail(snapshot)
               /\ notified_flights' = notified_flights]_vars
    /\ [](pc = "sweep" => PolledChats(cycle) = cycle.snap)
    /\ [](Len(cycle.polled) > 0 /\ FailedPoll(Last(cycle.polled))
            => pc \in {"poll", "sweep"})

\* The first subscriber of a cycle failed, the second was polled after it
\* and got its notification.
C8_Witness ==
    /\ pc = "sweep"
    /\ Len(cycle.polled) = 2
    /\ FailedPoll(cycle.polled[1])
    /\ Delivered(cycle, NotificationKey(cycle.polled[2].chat_id, "a")) = 1

\* C9: a step in which every send for a key fails leaves the record of the
\* key as it was and goes on with the next subscriber or the cleanup; and a
\* key whose last send failed in the previous cycle is sent again in a
\* cycle that lists the aircraft airborne inside the area.
C9_SinkFailure ==
    /\ [][pc = "poll" =>
            \A key \in KeysOf(Head(snapshot).chat_id) :
                (/\ Len(SinkCalls(cycle', key)) > Len(SinkCalls(cycle, key))
                 /\ Delivered(cycle', key) = Delivered(cycle, key))
                => /\ key \in DOMAIN notified_flights'
                        <=> key \in DOMAIN notified_flights
                   /\ key \in DOMAIN notified_flights
                        => notified_flights'[key] = notified_flights[key]
                   /\ pc' \in {"poll", "sweep"}
                   /\ snapshot' = Tail(snapshot)]_vars
    /\ [](pc = "sweep" =>
            \A key \in retry :
                key \in cycle.inside => SinkCalls(cycle, key) # << >>)

\* C10: within one cycle bot.send_message is called at most once for a
\* key, whether the send succeeds or fails and however often the feed lists
\* the aircraft.
C10_OneCallPerKey == \A key \in DOMAIN cycle.sink : Len(cycle.sink[key]) <= 1

\* C10 as amended: within one cycle every send for a key but the last one
\* failed (no key is delivered twice, none is sent again once delivered),
\* and a key is sent at most as often as the feed listed it.
C10_OneDeliveryPerKey ==
    \A key \in DOMAIN cycle.sink :
        /\ \A i \in 1..(Len(cycle.sink[key]) - 1) : ~cycle.sink[key][i]
        /\ Len(cycle.sink[key]) <= Listed(cycle, key)

\* The feed listed the aircraft twice: the first send failed and the second,
\* in the same cycle, was delivered.
C10_Witness == \E key \in DOMAIN cycle.sink : cycle.sink[key] = << FALSE, TRUE >>

\* The chat ids of a dict or of a part of the snapshot, in order.
ChatsOf(dict) == [i \in 1..Len(dict) |-> dict[i].chat_id]

\* C11: the loop runs over the list taken at line 632: whatever commands
\* interleave, the subscribers polled so far followed by those still to be
\* polled are the subscribers of that list, each once, so at the cleanup
\* each was polled exactly once and nobody else was; the list is the
\* monitored set at the moment it is taken, and a command that changes the
\* monitored set changes neither the list nor what the cycle has done.
C11_SnapshotSemantics ==
    /\ [](pc \in {"poll", "sweep"} =>
            /\ PolledChats(cycle) \o ChatsOf(snapshot) = cycle.snap
            /\ \A i, j \in 1..Len(cycle.snap) :
                   cycle.snap[i] = cycle.snap[j] => i = j)
    /\ [](pc = "sweep" => snapshot = << >>)
    /\ [][pc = "snapshot" /\ pc' # "snapshot"
            => cycle'.snap = ChatsOf(monitoring_areas) /\ cycle'.polled = << >>]_vars
    /\ [][monitoring_areas' # monitoring_areas
            => snapshot' = snapshot /\ cycle' = cycle /\ pc' = pc]_vars

\* Mid-cycle, the first subscriber polled, the second is still to be polled
\* and has stopped monitoring since the list was taken.
C11_Witness ==
    /\ pc = "poll"
    /\ Len(cycle.polled) = 1
    /\ Len(snapshot) = 1
    /\ Head(snapshot).chat_id \notin DictKeys(monitoring_areas)

\* A step of the monitor thread: it moves in monitor_flights or sleeps.
MonitorStep == pc' # pc \/ sleeps' # sleeps

\* C12: an iteration that finds nobody monitored at line 628 only sleeps
\* and comes back to line 628: no request to the feed, no send, nothing
\* recorded or removed; an iteration goes on to the loop over the
\* subscribers exactly when somebody was monitored at line 628, and then
\* without sleeping first.
C12_IdleNoExternalCalls ==
    /\ [][(pc = "check" /\ monitoring_areas = << >> /\ MonitorStep)
            => /\ pc' = "check"
               /\ sleeps' = sleeps + 1
               /\ cycle' = cycle /\ cycle.polled = << >> /\ cycle.sink = << >>
               /\ DOMAIN notified_flights' = DOMAIN notified_flights
               /\ snapshot' = snapshot]_vars
    /\ [][(pc = "check" /\ monitoring_areas # << >> /\ MonitorStep)
            => pc' = "snapshot" /\ sleeps' = sleeps]_vars
    /\ [][(pc = "check" /\ pc' # "check")
            => monitoring_areas # << >> /\ pc' = "snapshot"]_vars
    /\ [](Len(cycle.polled) > 0 => pc \in {"poll", "sweep"})

\* Back in the idle branch after a cycle: a notification was sent, the
\* cycle slept its 3 minutes, the subscriber stopped, the idle branch slept
\* a minute, and nothing else happened to the record.
C12_Witness ==
    /\ pc = "check"
    /\ monitoring_areas = << >>
    /\ cycle = NoCycle
    /\ \E key \in DOMAIN notified_flights :
          notified_flights[key] = POLL_SLEEP + IDLE_SLEEP

\* C13: an exception that leaves an iteration of the loop takes the thread
\* to the handler of line 668 and nowhere else; from there the only step is
\* the sleep of 300 seconds followed by the top of the loop; and wherever
\* the thread is, it comes to the top of the loop again.
C13_LoopNeverTerminates ==
    /\ [](pc \in {"check", "snapshot", "poll", "sweep", "sleep", "backoff"})
    /\ [][pc = "backoff" /\ MonitorStep
            => /\ pc' = "check"
               /\ notified_flights' = Older(notified_flights, BACKOFF_SLEEP)]_vars
    /\ [][pc = "sweep" /\ pc' \notin {"sweep", "sleep"} => pc' = "backoff"]_vars
    /\ (pc = "backoff") ~> (pc = "check")
    /\ []<>(pc = "check")

\* The thread is back at the top of the loop after an exception and its
\* back-off sleep, a record having aged by the 300 seconds.
C13_Witness ==
    /\ pc = "check"
    /\ \E key \in DOMAIN notified_flights : notified_flights[key] = BACKOFF_SLEEP

\* C14: a /start_monitoring that takes effect leaves the stored row of the
\* subscriber with is_active = 1, and a /stop_monitoring that takes effect
\* leaves it with is_active = 0.
C14_ActiveFlagLifecycle ==
    [][\A chat_id \in Chats :
         /\ (chat_id \notin DictKeys(monitoring_areas)
               /\ chat_id \in DictKeys(monitoring_areas'))
            => /\ chat_id \in DOMAIN area_store'
               /\ area_store'[chat_id].is_active = 1
         /\ (chat_id \in DictKeys(monitoring_areas)
               /\ chat_id \notin DictKeys(monitoring_areas'))
            => /\ chat_id \in DOMAIN area_store'
               /\ area_store'[chat_id].is_active = 0]_vars

\* C15: every subscriber in self.monitoring_areas has a stored row with
\* is_active = 1; a subscriber is in self.monitoring_areas exactly when its
\* last /start_monitoring or /stop_monitoring in the running process was a
\* /start_monitoring that found such a row; the dictionary is empty when
\* the process starts, whatever the table holds; and nobody is polled
\* whose start has not been handled in the running process.
C15_MonitorSetConsistency ==
    /\ [](\A chat_id \in DictKeys(monitoring_areas) :
            /\ chat_id \in DOMAIN area_store
            /\ area_store[chat_id].is_active = 1)
    /\ [](\A chat_id \in Chats :
            chat_id \in DictKeys(monitoring_areas)
                <=> last_cmd.monitoring[chat_id] = "started")
    /\ [](\A i \in 1..Len(cycle.polled) :
            last_cmd.monitoring[cycle.polled[i].chat_id]
                \in {"started", "stopped"})
    /\ [][(\A c \in Chats : last_cmd'.monitoring[c] = "none")
            => monitoring_areas' = << >>]_vars

\* The process has restarted: chat 1 has a stored active row and has sent
\* no /start_monitoring since, chat 2 has, and the monitor thread has
\* polled chat 2 only.
C15_Witness ==
    /\ pc = "sweep"
    /\ 1 \in DOMAIN area_store
    /\ area_store[1].is_active = 1
    /\ last_cmd.monitoring[1] = "none"
    /\ last_cmd.monitoring[2] = "started"
    /\ PolledChats(cycle) = << 2 >>

\* A command was handled in this step.
CommandStep == last_cmd'.tick # last_cmd.tick

\* C16: a coordinate message whose box is not a well-formed area leaves
\* the table and self.monitoring_areas as they were and is answered with
\* the invalid-coordinates message; every box in the table, in
\* self.monitoring_areas and in the list the loop runs over is a
\* well-formed area.
C16_InvalidAreaNeverStored ==
    /\ [][(CommandStep /\ last_cmd'.request = "malformed")
            => /\ area_store' = area_store
               /\ monitoring_areas' = monitoring_areas
               /\ last_cmd'.reply = "invalid_coordinates"]_vars
    /\ [](\A chat_id \in DOMAIN area_store : ValidArea(area_store[chat_id].area))
    /\ [](\A i \in 1..Len(monitoring_areas) : ValidArea(monitoring_areas[i].area))
    /\ [](\A i \in 1..Len(snapshot) : ValidArea(snapshot[i].area))

\* Chat 2, monitoring its stored area, has just sent a box that is not a
\* well-formed area.
C16_Witness ==
    /\ last_cmd.request = "malformed"
    /\ last_cmd.reply = "invalid_coordinates"
    /\ 2 \in DOMAIN area_store
    /\ area_store[2].area = BoxB
    /\ 2 \in DictKeys(monitoring_areas)

\* C17: the table holds a row for exactly the subscribers that have sent a
\* well-formed box, one each; its box is the last well-formed box the
\* subscriber sent and its is_active is 1; and a coordinate message changes
\* no row of another subscriber.
C17_UpsertBySubscriber ==
    /\ [](\A chat_id \in Chats :
            /\ chat_id \in DOMAIN area_store <=> last_cmd.area[chat_id] # Null
            /\ chat_id \in DOMAIN area_store
                 => /\ Some(area_store[chat_id].area) = last_cmd.area[chat_id]
                    /\ area_store[chat_id].is_active = 1)
    /\ [](DOMAIN area_store \subseteq Chats)
    /\ [][\A chat_id \in Chats :
            last_cmd'.area[chat_id] = last_cmd.area[chat_id]
            => /\ chat_id \in DOMAIN area_store' <=> chat_id \in DOMAIN area_store
               /\ chat_id \in DOMAIN area_store
                    => area_store'[chat_id] = area_store[chat_id]]_vars

\* Chat 1 stored BoxA, started monitoring it, then sent BoxB, which
\* replaced the row; chat 2 has a row of its own.
C17_Witness ==
    /\ 1 \in DOMAIN area_store
    /\ area_store[1].area = BoxB
    /\ \E i \in 1..Len(monitoring_areas) :
          monitoring_areas[i] = [chat_id |-> 1, area |-> BoxA]
    /\ 2 \in DOMAIN area_store

\* C18: validate_coordinates answers True exactly for the boxes with both
\* latitudes in [-90, 90], both longitudes in [-180, 180], north > south
\* and west < east; north = south and west = east are refused.
C18_BoxValidation ==
    probe.done =>
        /\ probe.result = ValidArea(probe.box)
        /\ probe.box.north = probe.box.south => ~probe.result
        /\ probe.box.west = probe.box.east => ~probe.result

\* validate_coordinates has refused a box in range with west < east whose
\* north equals its south.
C18_Witness ==
    /\ probe.done
    /\ ~probe.result
    /\ probe.box = Box(90, 90, 180, -180)

\* C19: no command handler (coordinates, /start_monitoring,
\* /stop_monitoring, /myarea, /status) changes self.notified_flights.
C19_CooldownOwnedByScheduler ==
    [][CommandStep => notified_flights' = notified_flights]_vars

\* The record of chat 1 for aircraft "a" is 3 minutes old; chat 1 has since
\* changed its area to BoxB and is monitoring it after a /start_monitoring,
\* its last command.
C19_Witness ==
    /\ "1_a" \in DOMAIN notified_flights
    /\ notified_flights["1_a"] = POLL_SLEEP
    /\ last_cmd.reply = "monitoring_started"
    /\ monitoring_areas = << [chat_id |-> 1, area |-> BoxB] >>
    /\ last_cmd.area[1] = Some(BoxB)

\* C20: the cleanup runs once in a cycle, when every subscriber of the
\* list has been polled and none is left, and the sleep of 180 seconds
\* follows it; polling a subscriber removes no record.  (A cycle that an
\* exception takes to the handler of line 668 has no cleanup.)
C20_SweepOrdering ==
    /\ [](pc \in {"snapshot", "poll", "sweep"} => cycle.swept = 0)
    /\ [](pc = "sleep" => cycle.swept = 1)
    /\ [][cycle'.swept > cycle.swept
            => /\ pc = "sweep" /\ pc' = "sleep"
               /\ snapshot = << >>
               /\ PolledChats(cycle) = cycle.snap
               /\ notified_flights' = Cleanup(notified_flights)]_vars
    /\ [][pc = "poll"
            => DOMAIN notified_flights \subseteq DOMAIN notified_flights']_vars
    /\ [][pc = "sweep" /\ MonitorStep => pc' \in {"sleep", "backoff"}]_vars
    /\ [][pc = "sleep" /\ MonitorStep
            => /\ pc' = "check"
               /\ notified_flights' = Older(notified_flights, POLL_SLEEP)]_vars

\* The cleanup has run after the poll and removed a record that was over an
\* hour old; the 180 second sleep is next.
C20_Witness ==
    /\ pc = "sleep"
    /\ cycle.swept = 1
    /\ \E key \in DOMAIN cycle.before :
          /\ cycle.before[key] = POLL_SLEEP + EXPIRY_SECONDS
          /\ key \notin DOMAIN notified_flights

\* C21 as stated: whenever a subscriber is polled, the box of the request
\* is the box the table held at that subscriber's most recent successful
\* /start_monitoring.
C21_PolledBoxIsLastStartedBox ==
    [][Len(cycle'.polled) > Len(cycle.polled)
         => Some(Last(cycle'.polled).area) =
               last_cmd.started[Last(cycle'.polled).chat_id]]_vars

\* C21: the box polled for a subscriber in a cycle is the box the table
\* held at that subscriber's most recent successful /start_monitoring
\* before the cycle's snapshot was taken; the entry of a monitored
\* subscriber holds the box stored at its most recent successful
\* /start_monitoring, and a coordinate message changes neither that entry
\* nor the snapshot being polled.
C21_PolledBoxIsStartedBoxOfSnapshot ==
    /\ [](\A i \in 1..Len(cycle.polled) :
            Some(cycle.polled[i].area) = cycle.started[cycle.polled[i].chat_id])
    /\ [](\A i \in 1..Len(monitoring_areas) :
            Some(monitoring_areas[i].area) =
               last_cmd.started[monitoring_areas[i].chat_id])
    /\ [][CommandStep /\ last_cmd'.request # "none"
           => monitoring_areas' = monitoring_areas /\ snapshot' = snapshot]_vars

\* Chat 1 started monitoring with BoxA stored, then sent BoxB; the table
\* holds BoxB, the entry still holds BoxA, and chat 1 was polled with BoxA.
C21_Witness ==
    /\ 1 \in DOMAIN area_store
    /\ area_store[1].area = BoxB
    /\ last_cmd.request = "well_formed"
    /\ last_cmd.started[1] = Some(BoxA)
    /\ \E i \in 1..Len(monitoring_areas) :
          monitoring_areas[i] = [chat_id |-> 1, area |-> BoxA]
    /\ \E i \in 1..Len(cycle.polled) :
          /\ cycle.polled[i].chat_id = 1
          /\ cycle.polled[i].area = BoxA
          /\ cycle.polled[i].result = "states"

\* C22: records whose identifier is absent or empty are all keyed
\* "<chat>_unknown": notified_flights never holds a key with an empty
\* identifier; while the last delivery to a chat for a record without
\* identifier is less than 30 minutes old, the record under the chat's
\* "unknown" key tells its age; and no delivery for a record without
\* identifier is made to a chat less than 30 minutes after another such
\* delivery to the same chat, whichever of the aircraft it was for.
C22_UnknownKeyShared ==
    /\ DOMAIN notified_flights \subseteq KeysOf(1) \cup KeysOf(2)
    /\ \A chat_id \in Chats :
          (/\ Anonymous(chat_id) \in DOMAIN since_sent
           /\ since_sent[Anonymous(chat_id)] < COOLDOWN_SECONDS)
          => /\ NotificationKey(chat_id, "unknown") \in DOMAIN notified_flights
             /\ notified_flights[NotificationKey(chat_id, "unknown")]
                   = since_sent[Anonymous(chat_id)]
    /\ \A gap \in cycle.anon_gaps : gap >= COOLDOWN_SECONDS

\* One response listed both aircraft without identifier inside BoxA: the
\* first was notified to chat 1, under the key "1_unknown", and no send was
\* made for the second.
C22_Witness ==
    /\ AnonSeen(cycle, 1) =
          << [icao24 |-> Null, called |-> TRUE, sent |-> TRUE],
             [icao24 |-> Some(""), called |-> FALSE, sent |-> FALSE] >>
    /\ NotificationKey(1, "unknown") \in DOMAIN notified_flights
    /\ notified_flights[NotificationKey(1, "unknown")] = 0

============================================================================
